---- MODULE Spec2Model ----
(***************************************************************************)
(* Reverse tunnel manager (src/reverse_tunnel.py): the credential store,   *)
(* the reconnect supervisor run_tunnel, the channel bridge forward_channel *)
(* and the orchestrator main, as one state machine.                        *)
(***************************************************************************)
EXTENDS Integers, Sequences, FiniteSets, TLC

(* ------------------------------ bounds --------------------------------- *)

\* Most tunnels main starts (one supervisor thread per TunnelSpec).
MaxTunnels == 2
\* Channel slots per supervisor: bridges that can be active at the same time.
MaxChannels == 2
\* Largest configured --backoff-start / --backoff-max.
MaxBackoffCfg == 3
\* Configured backoff values reach down to -NegBackoff (argparse type=int).
NegBackoff == 1
\* The counter of consecutive BackingOff passes saturates here.
MaxFails == 3
\* The counter of sessions left open by earlier iterations saturates here.
MaxLeak == 2

(* ----------------------------- constants ------------------------------- *)

\* time.sleep(1) of the authentication-failure handler.
AuthPause == 1
\* Default of --remote-bind-port.
DefaultRemoteBindPort == 15292
\* Default of --local-port.
DefaultLocalPort == 3000

Tunnels == 1..MaxTunnels
Slots == 1..MaxChannels
BackoffValues == (0 - NegBackoff)..MaxBackoffCfg

\* Python's None for the local variable pw / password.
None == <<"None">>
NL == "\n"
Whitespace == {" ", NL}
\* The secret the remote host accepts.
ServerSecret == <<"g">>
\* What the operator may type at the getpass prompt.
PromptInputs == {<<>>, <<"g">>, <<"b", "b">>}

Min(a, b) == IF a <= b THEN a ELSE b

(* -------------------------- credential store --------------------------- *)

RECURSIVE LStrip(_)
LStrip(t) == IF t # <<>> /\ Head(t) \in Whitespace THEN LStrip(Tail(t)) ELSE t

RECURSIVE RStrip(_)
RStrip(t) ==
    IF t # <<>> /\ t[Len(t)] \in Whitespace
    THEN RStrip(SubSeq(t, 1, Len(t) - 1))
    ELSE t

\* str.strip()
Strip(t) == RStrip(LStrip(t))

NoFile == [exists |-> FALSE, content |-> <<>>, mode |-> "none"]

\* read_password: the stripped text, or None when the file does not exist.
read_password(f) == IF f.exists THEN Strip(f.content) ELSE None

\* A test that takes only a missing file for a missing secret.
Falsy_NoneOnly(p) == p = None

\* Python truthiness of pw in "if not pw".
Falsy(p) == p = None \/ p = <<>>

\* f.write(text) at offset 0 of a file opened without O_TRUNC.
Overwrite(old, text) == text \o SubSeq(old, Len(text) + 1, Len(old))

\* What write_password writes for a password.
FileText(p) == p \o <<NL>>

\* Files a previous run, or the operator, may have left at the path: a
\* stored secret, or a blank line.
InitFiles ==
    {NoFile} \cup
    {[exists |-> TRUE, content |-> FileText(p), mode |-> m] :
        p \in {<<"g">>, <<"b", "b">>, <<" ">>}, m \in {"0600", "0644"}}

(* ---------------------------- command line ----------------------------- *)

\* Text is a sequence of one-character strings.
Digits == <<"0", "1", "2", "3", "4", "5", "6", "7", "8", "9">>

IsDigit(ch) == \E i \in DOMAIN Digits : Digits[i] = ch

DigitValue(ch) == (CHOOSE i \in DOMAIN Digits : Digits[i] = ch) - 1

RECURSIVE DecimalValue(_)
DecimalValue(t) ==
    IF t = <<>> THEN 0
    ELSE 10 * DecimalValue(SubSeq(t, 1, Len(t) - 1)) + DigitValue(t[Len(t)])

\* int(text): surrounding whitespace is ignored, then an optional sign and at
\* least one decimal digit; anything else raises ValueError (ok is FALSE).
\* Underscores between digits, which int also accepts, are not modelled.
int(text) ==
    LET t == Strip(text)
        signed == t # <<>> /\ Head(t) \in {"-", "+"}
        body == IF signed THEN Tail(t) ELSE t
    IN  IF body = <<>> \/ \E i \in DOMAIN body : ~IsDigit(body[i])
        THEN [ok |-> FALSE, value |-> 0]
        ELSE [ok |-> TRUE,
              value |-> IF signed /\ Head(t) = "-"
                        THEN 0 - DecimalValue(body)
                        ELSE DecimalValue(body)]

RECURSIVE DecimalText(_)
DecimalText(n) ==
    IF n < 10 THEN <<Digits[n + 1]>>
    ELSE DecimalText(n \div 10) \o <<Digits[(n % 10) + 1]>>

\* str(n) of an int, as argparse receives and an f-string renders it.
str(n) == IF n < 0 THEN <<"-">> \o DecimalText(0 - n) ELSE DecimalText(n)

\* text.split(sep) for a one-character separator.
RECURSIVE split(_, _)
split(t, sep) ==
    IF \A i \in DOMAIN t : t[i] # sep THEN <<t>>
    ELSE LET i == CHOOSE k \in DOMAIN t :
                    t[k] = sep /\ \A j \in 1..(k - 1) : t[j] # sep
         IN  <<SubSeq(t, 1, i - 1)>> \o split(SubSeq(t, i + 1, Len(t)), sep)

\* Default of --remote-bind-host and of --local-host.
DefaultHost == <<"1", "2", "7", ".", "0", ".", "0", ".", "1">>

\* The log label of a tunnel.
Label(r_host, r_port, l_host, l_port) ==
    r_host \o <<":">> \o str(r_port) \o <<"-", ">">> \o l_host \o <<":">>
        \o str(l_port)

TunnelSpec(r_host, r_port, l_host, l_port) ==
    [remote_bind_host |-> r_host, remote_bind_port |-> r_port,
     local_host |-> l_host, local_port |-> l_port,
     label |-> Label(r_host, r_port, l_host, l_port)]

NoSpec ==
    [remote_bind_host |-> <<>>, remote_bind_port |-> 0, local_host |-> <<>>,
     local_port |-> 0, label |-> <<>>]

\* A parser that binds every tunnel to the default host.
RemoteHost_AlwaysDefault(parts, default_bind_host) == default_bind_host

\* Lines 218-223: the remote bind host of a --map value.
RemoteHost(parts, default_bind_host) ==
    IF Len(parts) = 4 THEN parts[1] ELSE default_bind_host

\* parse_map_flag: the TunnelSpec of a --map value, or the ValueError it
\* raises (ok is FALSE).
parse_map_flag(raw, default_bind_host) ==
    LET parts == split(raw, ":")
        r_host == RemoteHost(parts, default_bind_host)
        r_port == parts[Len(parts) - 2]
        l_host == parts[Len(parts) - 1]
        l_port == parts[Len(parts)]
    IN  IF Len(parts) \notin {3, 4}
        THEN [ok |-> FALSE, error |-> "Invalid --map value", spec |-> NoSpec]
        ELSE IF ~int(r_port).ok \/ ~int(l_port).ok
        THEN [ok |-> FALSE, error |-> "Ports must be integers in --map",
              spec |-> NoSpec]
        ELSE [ok |-> TRUE, error |-> "none",
              spec |-> TunnelSpec(r_host, int(r_port).value, l_host,
                                  int(l_port).value)]

\* Port numbers given on the command line: around both ends of 1..65535.
PortInputs == {0 - 1, 0, 80, 65535, 65536}

\* Port fields that are integers, with their values, and that are not.
IntFields == {<<str(n), n>> : n \in PortInputs} \cup {<<<<" ", "8", "0">>, 80>>}
NonIntFields == {<<>>, <<"x">>, <<"8", "0", "a">>}

Join3(a, b, c) == a \o <<":">> \o b \o <<":">> \o c
Join4(a, b, c, d) == a \o <<":">> \o Join3(b, c, d)

\* --map values of the two accepted shapes with integer ports.
GoodMap3 ==
    {Join3(p[1], <<"h">>, <<"8", "0">>) : p \in IntFields} \cup
    {Join3(<<"8", "0">>, <<"h">>, q[1]) : q \in IntFields}
GoodMap4 ==
    {Join4(<<"b">>, p[1], <<"h">>, <<"8", "0">>) : p \in IntFields} \cup
    {Join4(<<"b">>, <<"8", "0">>, <<"h">>, q[1]) : q \in IntFields}

\* --map values with a field count other than 3 or 4.
BadCountMap ==
    {<<>>, <<"8", "0">>, <<"a", "b", "c", ":", "3", "0", "0", "0">>,
     Join4(<<"b">>, <<"8", "0">>, <<"h">>, <<"8", "0", ":", "x">>)}

\* --map values of an accepted shape with a port that is not an integer.
BadPortMap ==
    {Join3(p, <<"h">>, <<"8", "0">>) : p \in NonIntFields} \cup
    {Join3(<<"8", "0">>, <<"h">>, <<"x">>),
     Join4(<<"b">>, <<"8", "0">>, <<"h">>, <<>>)}

MapInputs == GoodMap3 \cup GoodMap4 \cup BadCountMap \cup BadPortMap

(* ------------------------------- state --------------------------------- *)

VARIABLES
    cfg,        \* args: backoff_start, backoff_max, map and the legacy tunnel
                \* flags; slots: the channels the remote peer keeps open at once
    mainpc,     \* main: "parsing", "launching", "joining", "exited"
    specs,      \* main's list specs: the TunnelSpec of thread s is specs[s]
    status,     \* exit status of the process: "none", "zero", "nonzero"
    joins,      \* parity of the passes main has made through its join loop
    file,       \* the credential file at password_path
    pc,         \* pc[s]: position of supervisor s in run_tunnel
    pw,         \* pw[s]: the local password / pw of s
    fd,         \* fd[s]: the descriptor write_password holds open
    backoff,    \* backoff[s]: the local backoff (backoff_current)
    client,     \* client[s]: the SSHClient of the current iteration
    transport,  \* transport[s]: the session's transport
    polls,      \* polls[s]: parity of the accept timeouts of this session
    bridge,     \* bridge[s][c]: the forward_channel thread of slot c
    origin,     \* origin[s]: kind of the most recent failure of s
    waited,     \* waited[s]: the sleeps of s since its most recent failure
    fails,      \* fails[s]: BackingOff passes since s last entered Serving
    leaked,     \* leaked[s]: sessions of earlier iterations still open
    pwsrc       \* pwsrc[s]: where secure_password last took the secret from

main == <<mainpc, specs, status, joins>>
store == <<file, fd>>
hist == <<origin, waited, fails, leaked, pwsrc>>
vars == <<cfg, mainpc, specs, status, joins, file, pc, pw, fd, backoff, client,
          transport, polls, bridge, origin, waited, fails, leaked, pwsrc>>

\* A channel slot: the forward_channel thread (st), its channel and local
\* socket, and its two pipe threads t1 (channel to socket) and t2 (socket to
\* channel).  A pipe is "run" (in recv), "hold" (it holds data that recv
\* returned and sendall has not yet sent) or "ended".
NoBridge ==
    [st |-> "none", chan |-> "none", sock |-> "none", t1 |-> "none",
     t2 |-> "none"]

InitCommon ==
    /\ mainpc = "parsing"
    /\ specs = <<>>
    /\ status = "none"
    /\ joins = 0
    /\ file \in InitFiles
    /\ pc = [s \in Tunnels |-> "unstarted"]
    /\ pw = [s \in Tunnels |-> None]
    /\ fd = [s \in Tunnels |-> "none"]
    /\ backoff = [s \in Tunnels |-> cfg.backoff_start]
    /\ client = [s \in Tunnels |-> "none"]
    /\ transport = [s \in Tunnels |-> "none"]
    /\ polls = [s \in Tunnels |-> 0]
    /\ bridge = [s \in Tunnels |-> [c \in Slots |-> NoBridge]]
    /\ origin = [s \in Tunnels |-> "none"]
    /\ waited = [s \in Tunnels |-> <<>>]
    /\ fails = [s \in Tunnels |-> 0]
    /\ leaked = [s \in Tunnels |-> 0]
    /\ pwsrc = [s \in Tunnels |-> "none"]

\* The legacy flags at their defaults.
LegacyDefaults ==
    [remote_bind_host |-> DefaultHost,
     remote_bind_port |-> DefaultRemoteBindPort,
     local_host |-> DefaultHost, local_port |-> DefaultLocalPort]

Args(backoff_start, backoff_max, slots, map, legacy) ==
    [backoff_start |-> backoff_start, backoff_max |-> backoff_max,
     slots |-> slots, map |-> map,
     remote_bind_host |-> legacy.remote_bind_host,
     remote_bind_port |-> legacy.remote_bind_port,
     local_host |-> legacy.local_host, local_port |-> legacy.local_port]

\* One tunnel given by the legacy flags: every configured backoff pair with
\* a peer that opens no channel, and one backoff pair with a peer that keeps
\* up to MaxChannels channels open.
InitSolo ==
    /\ \/ \E b \in BackoffValues, m \in BackoffValues :
                cfg = Args(b, m, 0, <<>>, LegacyDefaults)
       \/ cfg = Args(1, 2, MaxChannels, <<>>, LegacyDefaults)
    /\ InitCommon

\* Two tunnels sharing the password file, one backoff configuration, no
\* inbound channels.
InitDuo ==
    /\ cfg = Args(1, 2, 0,
                  <<Join3(str(80), <<"h">>, str(80)),
                    Join4(<<"b">>, str(80), <<"h">>, str(80))>>,
                  LegacyDefaults)
    /\ InitCommon

\* Every command line: up to MaxTunnels --map values, or none and any
\* legacy ports; no stored secret, one backoff configuration.
InitCli ==
    /\ \/ \E n \in 1..MaxTunnels : \E map \in [1..n -> MapInputs] :
                cfg = Args(1, 2, 0, map, LegacyDefaults)
       \/ \E p \in PortInputs, q \in PortInputs :
                cfg = Args(1, 2, 0, <<>>,
                           [LegacyDefaults EXCEPT !.remote_bind_port = p,
                                                  !.local_port = q])
    /\ InitCommon
    /\ file = NoFile

Running(s) == mainpc # "exited" /\ pc[s] \notin {"unstarted", "dead"}

(* -------------------------------- main --------------------------------- *)

\* main, lines 274-289: the next --map value is parsed and its TunnelSpec
\* appended, or, without --map, the legacy flags give the one TunnelSpec.
\* The ValueError of parse_map_flag is caught nowhere: traceback, exit 1.
MainParse ==
    /\ mainpc = "parsing"
    /\ IF cfg.map = <<>>
       THEN /\ specs' = <<TunnelSpec(cfg.remote_bind_host,
                                     cfg.remote_bind_port, cfg.local_host,
                                     cfg.local_port)>>
            /\ mainpc' = "launching"
            /\ UNCHANGED status
       ELSE LET r == parse_map_flag(cfg.map[Len(specs) + 1],
                                    cfg.remote_bind_host)
            IN  IF r.ok
                THEN /\ specs' = Append(specs, r.spec)
                     /\ mainpc' = IF Len(specs) + 1 = Len(cfg.map)
                                  THEN "launching" ELSE "parsing"
                     /\ UNCHANGED status
                ELSE /\ mainpc' = "exited"
                     /\ status' = "nonzero"
                     /\ UNCHANGED specs
    /\ UNCHANGED <<cfg, joins, file, pc, pw, fd, backoff, client, transport,
                   polls, bridge, hist>>

\* A main that starts the thread of a spec as soon as it is parsed.
MainLaunch_Eager ==
    /\ mainpc \in {"parsing", "launching"}
    /\ \E s \in 1..Len(specs) :
        /\ pc[s] = "unstarted"
        /\ \A t \in 1..(s - 1) : pc[t] # "unstarted"
        /\ pc' = [pc EXCEPT ![s] = "loop"]
        /\ mainpc' = IF mainpc = "launching" /\ s = Len(specs)
                     THEN "joining" ELSE mainpc
    /\ UNCHANGED <<cfg, specs, status, joins, file, pw, fd, backoff, client,
                   transport, polls, bridge, hist>>

\* main, lines 291-311: start the thread of the next spec, in order.
MainLaunch ==
    /\ mainpc = "launching"
    /\ \E s \in 1..Len(specs) :
        /\ pc[s] = "unstarted"
        /\ \A t \in 1..(s - 1) : pc[t] # "unstarted"
        /\ pc' = [pc EXCEPT ![s] = "loop"]
        /\ mainpc' = IF s = Len(specs) THEN "joining" ELSE "launching"
    /\ UNCHANGED <<cfg, specs, status, joins, file, pw, fd, backoff, client,
                   transport, polls, bridge, hist>>

\* KeyboardInterrupt in the main thread (caught at line 319 in the join loop,
\* uncaught before it): the process exits and the daemon threads end with it,
\* wherever they are.
MainInterrupt ==
    /\ mainpc # "exited"
    /\ mainpc' = "exited"
    /\ status' = IF mainpc = "joining" THEN "zero" ELSE "nonzero"
    /\ UNCHANGED <<cfg, specs, joins, file, pc, pw, fd, backoff, client,
                   transport, polls, bridge, hist>>

\* main, lines 314-318: one pass of the join loop: a join with a timeout on
\* every thread, then a sleep; whatever the threads did, the loop goes on.
MainJoin ==
    /\ mainpc = "joining"
    /\ joins' = 1 - joins
    /\ UNCHANGED <<cfg, mainpc, specs, status, file, pc, pw, fd, backoff,
                   client, transport, polls, bridge, hist>>

(* ------------------- run_tunnel: obtaining the secret ------------------ *)

\* Sessions of earlier iterations that the new iteration leaves open.
LeakAtNew(s) ==
    IF client[s] = "open" THEN Min(leaked[s] + 1, MaxLeak) ELSE leaked[s]

\* Lines 130-134 and 47-48: a new SSHClient, then secure_password reads the
\* file; a missing or empty secret leads to the prompt.
ReadPassword(s) ==
    /\ Running(s) /\ pc[s] = "loop"
    /\ client' = [client EXCEPT ![s] = "new"]
    /\ leaked' = [leaked EXCEPT ![s] = LeakAtNew(s)]
    /\ pw' = [pw EXCEPT ![s] = read_password(file)]
    /\ pc' = [pc EXCEPT ![s] =
                IF Falsy(read_password(file)) THEN "prompt" ELSE "fixperm"]
    /\ pwsrc' = [pwsrc EXCEPT ![s] = "file"]
    /\ UNCHANGED <<cfg, main, store, backoff, transport, polls, bridge,
                   origin, waited, fails>>

\* Line 49: prompt_password.
PromptPassword(s) ==
    /\ Running(s) /\ pc[s] = "prompt"
    /\ \E p \in PromptInputs : pw' = [pw EXCEPT ![s] = p]
    /\ pc' = [pc EXCEPT ![s] = "wp_exists"]
    /\ pwsrc' = [pwsrc EXCEPT ![s] = "prompt"]
    /\ UNCHANGED <<cfg, main, store, backoff, client, transport, polls,
                   bridge, origin, waited, fails, leaked>>

\* Lines 36-38: mkdir, then path.exists().
WpExists(s) ==
    /\ Running(s) /\ pc[s] = "wp_exists"
    /\ pc' = [pc EXCEPT ![s] = IF file.exists THEN "wp_unlink" ELSE "wp_open"]
    /\ UNCHANGED <<cfg, main, store, pw, backoff, client, transport, polls,
                   bridge, hist>>

\* Descriptors on a file that is unlinked keep the inode, not the path.
Orphaned(f) == [s \in Tunnels |-> IF f[s] = "path" THEN "orphan" ELSE f[s]]

\* Line 39: path.unlink(); FileNotFoundError when the file is gone by now,
\* raised outside the try of run_tunnel, which ends the thread.
WpUnlink(s) ==
    /\ Running(s) /\ pc[s] = "wp_unlink"
    /\ IF file.exists
       THEN /\ file' = NoFile
            /\ fd' = Orphaned(fd)
            /\ pc' = [pc EXCEPT ![s] = "wp_open"]
       ELSE /\ pc' = [pc EXCEPT ![s] = "dead"]
            /\ UNCHANGED store
    /\ UNCHANGED <<cfg, main, pw, backoff, client, transport, polls, bridge,
                   hist>>

\* Line 40: os.open(path, O_WRONLY | O_CREAT, 0o600): creates an empty file
\* of mode 0600, or opens the existing one as it is.
WpOpen(s) ==
    /\ Running(s) /\ pc[s] = "wp_open"
    /\ file' = IF file.exists THEN file
               ELSE [exists |-> TRUE, content |-> <<>>, mode |-> "0600"]
    /\ fd' = [fd EXCEPT ![s] = "path"]
    /\ pc' = [pc EXCEPT ![s] = "wp_write"]
    /\ UNCHANGED <<cfg, main, pw, backoff, client, transport, polls, bridge,
                   hist>>

\* Lines 41 and 51: write password + "\n" through the descriptor, close it.
WpWrite(s) ==
    /\ Running(s) /\ pc[s] = "wp_write"
    /\ file' = IF fd[s] = "path"
               THEN [file EXCEPT !.content = Overwrite(@, FileText(pw[s]))]
               ELSE file
    /\ fd' = [fd EXCEPT ![s] = "none"]
    /\ pc' = [pc EXCEPT ![s] = "connect"]
    /\ UNCHANGED <<cfg, main, pw, backoff, client, transport, polls, bridge,
                   hist>>

\* A secure_password that returns the stored secret without looking at the
\* mode of the file.
FixPerm_Skip(s) ==
    /\ Running(s) /\ pc[s] = "fixperm"
    /\ pc' = [pc EXCEPT ![s] = "connect"]
    /\ UNCHANGED <<cfg, main, store, pw, backoff, client, transport, polls,
                   bridge, hist>>

\* Lines 53-59: tighten the mode of an existing file; errors are swallowed.
FixPerm(s) ==
    /\ Running(s) /\ pc[s] = "fixperm"
    /\ file' = IF file.exists /\ file.mode # "0600"
               THEN [file EXCEPT !.mode = "0600"]
               ELSE file
    /\ pc' = [pc EXCEPT ![s] = "connect"]
    /\ UNCHANGED <<cfg, main, fd, pw, backoff, client, transport, polls,
                   bridge, hist>>

(* ------------------ run_tunnel: connecting and serving ----------------- *)

\* The outcome of an attempt is recorded for the recovery that follows it.
Failed(s, kind) ==
    /\ origin' = [origin EXCEPT ![s] = kind]
    /\ waited' = [waited EXCEPT ![s] = <<>>]

\* Lines 138-154: connect succeeds and the session has a transport;
\* keepalives are switched on.
ConnectOK(s) ==
    /\ Running(s) /\ pc[s] = "connect"
    /\ pw[s] = ServerSecret
    /\ client' = [client EXCEPT ![s] = "open"]
    /\ transport' = [transport EXCEPT ![s] = "alive"]
    /\ waited' = [waited EXCEPT ![s] = <<>>]
    /\ pc' = [pc EXCEPT ![s] = "forward"]
    /\ UNCHANGED <<cfg, main, store, pw, backoff, polls, bridge, origin,
                   fails, leaked, pwsrc>>

\* Lines 138-148, 175-176: the remote host rejects the secret; the
\* connection made for the attempt stays open until client.close().
ConnectAuthFail(s) ==
    /\ Running(s) /\ pc[s] = "connect"
    /\ pw[s] # ServerSecret
    /\ client' = [client EXCEPT ![s] = "open"]
    /\ Failed(s, "auth")
    /\ pc' = [pc EXCEPT ![s] = "auth_unlink"]
    /\ UNCHANGED <<cfg, main, store, pw, backoff, transport, polls, bridge,
                   fails, leaked, pwsrc>>

\* Lines 138-148, 192-195: any other exception of connect (network,
\* handshake, timeout), with or without a connection left behind.
ConnectError(s) ==
    /\ Running(s) /\ pc[s] = "connect"
    /\ \E left \in {"new", "open"} : client' = [client EXCEPT ![s] = left]
    /\ Failed(s, "connect")
    /\ pc' = [pc EXCEPT ![s] = "finally"]
    /\ UNCHANGED <<cfg, main, store, pw, backoff, transport, polls, bridge,
                   fails, leaked, pwsrc>>

\* Lines 149-151: connect returned, get_transport() gives nothing.
ConnectNoTransport(s) ==
    /\ Running(s) /\ pc[s] = "connect"
    /\ pw[s] = ServerSecret
    /\ client' = [client EXCEPT ![s] = "open"]
    /\ Failed(s, "transport")
    /\ pc' = [pc EXCEPT ![s] = "finally"]
    /\ UNCHANGED <<cfg, main, store, pw, backoff, transport, polls, bridge,
                   fails, leaked, pwsrc>>

\* A supervisor that forgets the reset of line 161.
ServingBackoff_Keep(b, start) == b

\* Line 161: the value backoff takes when the tunnel is up.
ServingBackoff(b, start) == start

\* Lines 158-161: request_port_forward succeeds; the tunnel is up.
ForwardOK(s) ==
    /\ Running(s) /\ pc[s] = "forward"
    /\ backoff' = [backoff EXCEPT ![s] = ServingBackoff(@, cfg.backoff_start)]
    /\ fails' = [fails EXCEPT ![s] = 0]
    /\ polls' = [polls EXCEPT ![s] = 0]
    /\ pc' = [pc EXCEPT ![s] = "serving"]
    /\ UNCHANGED <<cfg, main, store, pw, client, transport, bridge, origin,
                   waited, leaked, pwsrc>>

\* A handler that starts the backoff over when the forward request fails.
ForwardFail_Resets(s) ==
    /\ Running(s) /\ pc[s] = "forward"
    /\ backoff' = [backoff EXCEPT ![s] = cfg.backoff_start]
    /\ Failed(s, "forward")
    /\ pc' = [pc EXCEPT ![s] = "finally"]
    /\ UNCHANGED <<cfg, main, store, pw, client, transport, polls,
                   bridge, fails, leaked, pwsrc>>

\* Lines 158, 192-195: request_port_forward raises.
ForwardFail(s) ==
    /\ Running(s) /\ pc[s] = "forward"
    /\ Failed(s, "forward")
    /\ pc' = [pc EXCEPT ![s] = "finally"]
    /\ UNCHANGED <<cfg, main, store, pw, backoff, client, transport, polls,
                   bridge, fails, leaked, pwsrc>>

\* The peer dies or the network drops under a session that is Serving.
TransportDrop(s) ==
    /\ Running(s) /\ pc[s] = "serving"
    /\ transport[s] = "alive"
    /\ transport' = [transport EXCEPT ![s] = "dead"]
    /\ UNCHANGED <<cfg, main, store, pc, pw, backoff, client, polls, bridge,
                   hist>>

\* An accept loop that takes a timeout for a lost session and reconnects.
AcceptNone_Reconnects(s) ==
    /\ Running(s) /\ pc[s] = "serving"
    /\ polls' = [polls EXCEPT ![s] = 1 - @]
    /\ origin' = [origin EXCEPT ![s] = "serving"]
    /\ waited' = [waited EXCEPT ![s] = <<>>]
    /\ pc' = [pc EXCEPT ![s] = "finally"]
    /\ UNCHANGED <<cfg, main, store, pw, backoff, client, transport, bridge,
                   fails, leaked, pwsrc>>

\* Lines 165-168: accept returns None after its timeout; the loop goes on.
AcceptNone(s) ==
    /\ Running(s) /\ pc[s] = "serving"
    /\ polls' = [polls EXCEPT ![s] = 1 - @]
    /\ UNCHANGED <<cfg, main, store, pc, pw, backoff, client, transport,
                   bridge, hist>>

FreeSlot(s, c) == bridge[s][c].st \in {"none", "failed", "done"}

\* An accept loop that takes the next channel only when no bridge of the
\* session is still at work.
AcceptChannel_Waits(s) ==
    /\ Running(s) /\ pc[s] = "serving"
    /\ transport[s] = "alive"
    /\ \A d \in Slots : FreeSlot(s, d)
    /\ cfg.slots >= 1
    /\ bridge' = [bridge EXCEPT ![s][1] =
                    [st |-> "spawned", chan |-> "open", sock |-> "none",
                     t1 |-> "none", t2 |-> "none"]]
    /\ UNCHANGED <<cfg, main, store, pc, pw, backoff, client, transport,
                   polls, hist>>

\* Lines 165-173: accept returns a channel, which is handed to a new
\* forward_channel thread; the loop goes on.
AcceptChannel(s) ==
    /\ Running(s) /\ pc[s] = "serving"
    /\ transport[s] = "alive"
    /\ \E c \in 1..cfg.slots :
        /\ FreeSlot(s, c)
        /\ \A d \in 1..(c - 1) : ~FreeSlot(s, d)
        /\ bridge' = [bridge EXCEPT ![s][c] =
                        [st |-> "spawned", chan |-> "open", sock |-> "none",
                         t1 |-> "none", t2 |-> "none"]]
    /\ UNCHANGED <<cfg, main, store, pc, pw, backoff, client, transport,
                   polls, hist>>

\* Lines 164-173, 192-195: an exception inside the accept loop (the session
\* reports the dropped transport, or the thread cannot be started).
ServingException(s) ==
    /\ Running(s) /\ pc[s] = "serving"
    /\ Failed(s, IF transport[s] = "dead" THEN "drop" ELSE "serving")
    /\ pc' = [pc EXCEPT ![s] = "finally"]
    /\ UNCHANGED <<cfg, main, store, pw, backoff, client, transport, polls,
                   bridge, fails, leaked, pwsrc>>

(* ------------------------ run_tunnel: recovery ------------------------- *)

\* Lines 178-182: delete the stored secret; errors are swallowed.
AuthUnlink(s) ==
    /\ Running(s) /\ pc[s] = "auth_unlink"
    /\ file' = NoFile
    /\ fd' = IF file.exists THEN Orphaned(fd) ELSE fd
    /\ pc' = [pc EXCEPT ![s] = "auth_sleep"]
    /\ UNCHANGED <<cfg, main, pw, backoff, client, transport, polls, bridge,
                   hist>>

\* Line 183: time.sleep(1).
AuthSleep(s) ==
    /\ Running(s) /\ pc[s] = "auth_sleep"
    /\ waited' = [waited EXCEPT ![s] = Append(@, <<"pause", AuthPause>>)]
    /\ pc' = [pc EXCEPT ![s] = "finally"]
    /\ UNCHANGED <<cfg, main, store, pw, backoff, client, transport, polls,
                   bridge, origin, fails, leaked, pwsrc>>

\* A handler without the "continue" of line 184: every failure backs off.
AfterFinally_AlwaysSleep(kind) == "sleep"

\* A loop that retries at once after every failure.
AfterFinally_NoDelay(kind) == "loop"

\* Where control goes after the finally clause: "continue" (line 184) for an
\* authentication failure, the backoff of lines 202-205 otherwise.
AfterFinally(kind) == IF kind = "auth" THEN "loop" ELSE "sleep"

\* A finally clause that does not close the client.
Closed_Not(c) == c

\* What the finally clause makes of the client: client.close().
Closed(c) == "closed"

\* Lines 196-200: finally: client.close().  The password of the attempt and
\* the poll parity are not read again before the next iteration sets them,
\* so they are forgotten here.
Finally(s) ==
    /\ Running(s) /\ pc[s] = "finally"
    /\ client' = [client EXCEPT ![s] = Closed(@)]
    /\ transport' = [transport EXCEPT ![s] = "none"]
    /\ pw' = [pw EXCEPT ![s] = None]
    /\ polls' = [polls EXCEPT ![s] = 0]
    /\ pc' = [pc EXCEPT ![s] = AfterFinally(origin[s])]
    /\ UNCHANGED <<cfg, main, store, backoff, bridge, hist>>

\* A backoff that doubles before it sleeps.
Sleep_DoublesFirst(s) ==
    /\ Running(s) /\ pc[s] = "sleep"
    /\ backoff' = [backoff EXCEPT ![s] = Min(@ * 2, cfg.backoff_max)]
    /\ IF backoff'[s] < 0
       THEN /\ pc' = [pc EXCEPT ![s] = "dead"]
            /\ UNCHANGED waited
       ELSE /\ pc' = [pc EXCEPT ![s] = "loop"]
            /\ waited' = [waited EXCEPT ![s] =
                            Append(@, <<"backoff", backoff'[s]>>)]
    /\ UNCHANGED <<cfg, main, store, pw, client, transport, polls,
                   bridge, origin, fails, leaked, pwsrc>>

\* Lines 203-204: time.sleep(backoff); a negative length raises ValueError
\* outside the try, which ends the thread.
Sleep(s) ==
    /\ Running(s) /\ pc[s] = "sleep"
    /\ IF backoff[s] < 0
       THEN /\ pc' = [pc EXCEPT ![s] = "dead"]
            /\ UNCHANGED waited
       ELSE /\ pc' = [pc EXCEPT ![s] = "double"]
            /\ waited' = [waited EXCEPT ![s] =
                            Append(@, <<"backoff", backoff[s]>>)]
    /\ UNCHANGED <<cfg, main, store, pw, backoff, client, transport, polls,
                   bridge, origin, fails, leaked, pwsrc>>

\* Line 205: min(backoff * 2, backoff_max).
NextBackoff(b, max) == Min(b * 2, max)

\* Line 205, then back to the top of the loop.
Double(s) ==
    /\ Running(s) /\ pc[s] = "double"
    /\ backoff' = [backoff EXCEPT ![s] = NextBackoff(@, cfg.backoff_max)]
    /\ fails' = [fails EXCEPT ![s] = Min(@ + 1, MaxFails)]
    /\ pc' = [pc EXCEPT ![s] = "loop"]
    /\ UNCHANGED <<cfg, main, store, pw, client, transport, polls, bridge,
                   origin, waited, leaked, pwsrc>>

(* --------------------------- forward_channel --------------------------- *)

BridgeRuns(s, c) == mainpc # "exited" /\ bridge[s][c].st # "none"

\* Lines 80-82, 92-95: the socket is created and the local TCP connect
\* succeeds; the two pipes start.
BridgeConnect(s, c) ==
    /\ BridgeRuns(s, c) /\ bridge[s][c].st = "spawned"
    /\ bridge' = [bridge EXCEPT ![s][c] =
                    [st |-> "piping", chan |-> "open", sock |-> "open",
                     t1 |-> "run", t2 |-> "run"]]
    /\ UNCHANGED <<cfg, main, store, pc, pw, backoff, client, transport,
                   polls, hist>>

\* A local connect failure that tears down every channel of the session.
BridgeConnectFail_All(s, c) ==
    /\ BridgeRuns(s, c) /\ bridge[s][c].st = "spawned"
    /\ bridge' = [bridge EXCEPT ![s] =
                    [d \in Slots |->
                        IF bridge[s][d].st \in {"spawned", "piping"}
                        THEN [bridge[s][d] EXCEPT !.st = "failed",
                                                   !.chan = "closed"]
                        ELSE bridge[s][d]]]
    /\ UNCHANGED <<cfg, main, store, pc, pw, backoff, client, transport,
                   polls, hist>>

\* Lines 80-89: the socket is created and the local TCP connect fails; the
\* channel is closed and the thread returns.  Nothing closes the socket of
\* line 80 on this path: it stays as socket.socket() made it.
BridgeConnectFail(s, c) ==
    /\ BridgeRuns(s, c) /\ bridge[s][c].st = "spawned"
    /\ bridge' = [bridge EXCEPT ![s][c] =
                    [st |-> "failed", chan |-> "closed", sock |-> "new",
                     t1 |-> "none", t2 |-> "none"]]
    /\ UNCHANGED <<cfg, main, store, pc, pw, backoff, client, transport,
                   polls, hist>>

\* pipe(channel, sock), thread t1, line 66: recv on the channel returns data.
PipeRecvT1(s, c) ==
    /\ BridgeRuns(s, c) /\ bridge[s][c].st = "piping"
    /\ bridge[s][c].t1 = "run"
    /\ bridge[s][c].chan # "closed"
    /\ bridge' = [bridge EXCEPT ![s][c].t1 = "hold"]
    /\ UNCHANGED <<cfg, main, store, pc, pw, backoff, client, transport,
                   polls, hist>>

\* Line 69: sendall has written the data to the socket, whose write side is
\* open; back to recv.
PipeSendT1(s, c) ==
    /\ BridgeRuns(s, c) /\ bridge[s][c].st = "piping"
    /\ bridge[s][c].t1 = "hold"
    /\ bridge[s][c].sock = "open"
    /\ bridge' = [bridge EXCEPT ![s][c].t1 = "run"]
    /\ UNCHANGED <<cfg, main, store, pc, pw, backoff, client, transport,
                   polls, hist>>

\* A pipe that closes its destination when it ends.
PipeT1_HardClose(s, c) ==
    /\ BridgeRuns(s, c) /\ bridge[s][c].st = "piping"
    /\ bridge[s][c].t1 \in {"run", "hold"}
    /\ bridge' = [bridge EXCEPT ![s][c].t1 = "ended",
                                ![s][c].sock = "closed"]
    /\ UNCHANGED <<cfg, main, store, pc, pw, backoff, client, transport,
                   polls, hist>>

\* Thread t1 ends: recv on the channel returns no data or raises, or sendall
\* to the socket raises (the data it held is lost with the socket); the
\* finally clause shuts down the write side of the socket (lines 64-76).
PipeT1(s, c) ==
    /\ BridgeRuns(s, c) /\ bridge[s][c].st = "piping"
    /\ bridge[s][c].t1 \in {"run", "hold"}
    /\ bridge' = [bridge EXCEPT ![s][c].t1 = "ended",
                                ![s][c].sock = "shut_wr"]
    /\ UNCHANGED <<cfg, main, store, pc, pw, backoff, client, transport,
                   polls, hist>>

\* pipe(sock, channel), thread t2: the same with the roles exchanged.
PipeRecvT2(s, c) ==
    /\ BridgeRuns(s, c) /\ bridge[s][c].st = "piping"
    /\ bridge[s][c].t2 = "run"
    /\ bridge[s][c].sock # "closed"
    /\ bridge' = [bridge EXCEPT ![s][c].t2 = "hold"]
    /\ UNCHANGED <<cfg, main, store, pc, pw, backoff, client, transport,
                   polls, hist>>

PipeSendT2(s, c) ==
    /\ BridgeRuns(s, c) /\ bridge[s][c].st = "piping"
    /\ bridge[s][c].t2 = "hold"
    /\ bridge[s][c].chan = "open"
    /\ bridge' = [bridge EXCEPT ![s][c].t2 = "run"]
    /\ UNCHANGED <<cfg, main, store, pc, pw, backoff, client, transport,
                   polls, hist>>

PipeT2(s, c) ==
    /\ BridgeRuns(s, c) /\ bridge[s][c].st = "piping"
    /\ bridge[s][c].t2 \in {"run", "hold"}
    /\ bridge' = [bridge EXCEPT ![s][c].t2 = "ended",
                                ![s][c].chan = "shut_wr"]
    /\ UNCHANGED <<cfg, main, store, pc, pw, backoff, client, transport,
                   polls, hist>>

\* Lines 96-105: both joins have returned; the socket and the channel are
\* closed and the thread returns.
BridgeFinish(s, c) ==
    /\ BridgeRuns(s, c) /\ bridge[s][c].st = "piping"
    /\ bridge[s][c].t1 = "ended" /\ bridge[s][c].t2 = "ended"
    /\ bridge' = [bridge EXCEPT ![s][c] =
                    [st |-> "done", chan |-> "closed", sock |-> "closed",
                     t1 |-> "ended", t2 |-> "ended"]]
    /\ UNCHANGED <<cfg, main, store, pc, pw, backoff, client, transport,
                   polls, hist>>

(* ---------------------------- specification ---------------------------- *)

Supervisor(s) ==
    \/ ReadPassword(s) \/ PromptPassword(s)
    \/ WpExists(s) \/ WpUnlink(s) \/ WpOpen(s) \/ WpWrite(s) \/ FixPerm(s)
    \/ ConnectOK(s) \/ ConnectAuthFail(s) \/ ConnectError(s)
    \/ ConnectNoTransport(s)
    \/ ForwardOK(s) \/ ForwardFail(s)
    \/ AcceptNone(s) \/ AcceptChannel(s) \/ ServingException(s)
    \/ AuthUnlink(s) \/ AuthSleep(s) \/ Finally(s) \/ Sleep(s) \/ Double(s)

Bridge(s, c) ==
    \/ BridgeConnect(s, c) \/ BridgeConnectFail(s, c)
    \/ PipeRecvT1(s, c) \/ PipeSendT1(s, c) \/ PipeT1(s, c)
    \/ PipeRecvT2(s, c) \/ PipeSendT2(s, c) \/ PipeT2(s, c)
    \/ BridgeFinish(s, c)

Next ==
    \/ MainParse
    \/ MainLaunch
    \/ MainJoin
    \/ MainInterrupt
    \/ \E s \in Tunnels : Supervisor(s)
    \/ \E s \in Tunnels : TransportDrop(s)
    \/ \E s \in Tunnels, c \in Slots : Bridge(s, c)

\* One tunnel, every backoff configuration.
Spec == InitSolo /\ [][Next]_vars

\* The supervisors of two tunnels sharing the credential file; the bridges,
\* which touch no state of a supervisor or of the store, are left out.
SupervisorDuo(s) ==
    \/ ReadPassword(s) \/ PromptPassword(s)
    \/ WpExists(s) \/ WpUnlink(s) \/ WpOpen(s) \/ WpWrite(s) \/ FixPerm(s)
    \/ ConnectOK(s) \/ ConnectAuthFail(s) \/ ConnectError(s)
    \/ ConnectNoTransport(s)
    \/ ForwardOK(s) \/ ForwardFail(s)
    \/ AcceptNone(s) \/ ServingException(s)
    \/ AuthUnlink(s) \/ AuthSleep(s) \/ Finally(s) \/ Sleep(s) \/ Double(s)

NextDuo ==
    \/ MainParse
    \/ MainLaunch
    \/ MainJoin
    \/ MainInterrupt
    \/ \E s \in Tunnels : SupervisorDuo(s)
    \/ \E s \in Tunnels : TransportDrop(s)

SpecDuo == InitDuo /\ [][NextDuo]_vars

\* The supervisor threads and main keep running while the process lives;
\* what accept returns, whether the network fails, and whether the operator
\* interrupts, is up to the environment.
FairSpec ==
    /\ Spec
    /\ \A s \in Tunnels : WF_vars(Supervisor(s))
    /\ WF_vars(MainParse \/ MainLaunch \/ MainJoin)

\* main alone, on every command line: the threads it starts are not run.
NextCli ==
    \/ MainParse
    \/ MainLaunch
    \/ MainJoin
    \/ MainInterrupt

SpecCli == InitCli /\ [][NextCli]_vars

(* ------------------------------- claims -------------------------------- *)

RECURSIVE Pow2(_)
Pow2(k) == IF k = 0 THEN 1 ELSE 2 * Pow2(k - 1)

Started(s) == pc[s] # "unstarted"

\* C1: after k consecutive failures (passes through the backoff of lines
\* 202-205 with no Serving in between) backoff_current equals
\* min(backoff_start * 2^k, backoff_max), for every configured pair.
C1_BackoffAfterKFailures ==
    \A s \in Tunnels :
        (Started(s) /\ fails[s] < MaxFails) =>
            backoff[s] =
                Min(cfg.backoff_start * Pow2(fails[s]), cfg.backoff_max)

\* C2: whenever a supervisor is Serving, backoff_current equals
\* backoff_start, whatever it was before; so the backoff delay that follows
\* a period of Serving lasts backoff_start.
C2_ServingResetsBackoff ==
    \A s \in Tunnels :
        /\ pc[s] = "serving" => backoff[s] = cfg.backoff_start
        /\ (origin[s] \in {"drop", "serving"} /\ waited[s] # <<>>) =>
                waited[s] = <<(<<"backoff", cfg.backoff_start>>)>>

\* C2 witness: Serving again after a failed forward request whose backoff
\* had doubled the delay.
C2_Witness ==
    \E s \in Tunnels :
        /\ pc[s] = "serving" /\ origin[s] = "forward"
        /\ 0 < cfg.backoff_start /\ cfg.backoff_start < cfg.backoff_max

\* C3: in every reachable state of every supervisor backoff_start <=
\* backoff_current <= backoff_max, and no delay slept in BackingOff is longer
\* than backoff_max, for every configured pair.
C3_BackoffWithinBounds ==
    \A s \in Tunnels :
        Started(s) =>
            /\ cfg.backoff_start <= backoff[s]
            /\ backoff[s] <= cfg.backoff_max
            /\ \A i \in 1..Len(waited[s]) :
                waited[s][i][1] = "backoff" =>
                    waited[s][i][2] <= cfg.backoff_max

\* C4: the connection attempt that follows an authentication failure of a
\* supervisor takes its secret from a prompt of that attempt, not from the
\* stored file.
C4_RepromptAfterAuthFailure ==
    \A s \in Tunnels :
        (pc[s] = "connect" /\ origin[s] = "auth") => pwsrc[s] = "prompt"

\* C5 as stated: no wait of any kind lies between an authentication failure
\* and the next connection attempt.
C5_NoWaitAfterAuthFailure ==
    \A s \in Tunnels :
        (pc[s] = "connect" /\ origin[s] = "auth") => waited[s] = <<>>

\* C5 as amended: between an authentication failure and the next connection
\* attempt there is no BackingOff sleep; the only wait is the fixed pause of
\* one second of the handler.
C5_NoBackoffAfterAuthFailure ==
    \A s \in Tunnels :
        (origin[s] = "auth" /\ pc[s] \in {"finally", "loop", "prompt",
            "fixperm", "wp_exists", "wp_unlink", "wp_open", "wp_write",
            "connect"}) =>
            waited[s] = <<(<<"pause", AuthPause>>)>>

\* C5 witness: a connection attempt that follows an authentication failure.
C5_Witness ==
    \E s \in Tunnels : pc[s] = "connect" /\ origin[s] = "auth"

C7_DeadPeerDetected ==
    \A s \in Tunnels :
        (pc[s] = "serving" /\ transport[s] = "dead") ~>
            (pc[s] # "serving" \/ mainpc = "exited")

\* C8: a failed local connect of one bridge closes only its own channel: the
\* supervisor's position, backoff and session and every other bridge are
\* unchanged, and a Serving supervisor can accept a further channel.
C8_LocalConnectFailureIsLocal ==
    [][\A s \in Tunnels, c \in Slots :
        (bridge[s][c].st = "spawned" /\ bridge'[s][c].st = "failed") =>
            /\ bridge'[s][c].chan = "closed"
            /\ pc' = pc /\ backoff' = backoff
            /\ client' = client /\ transport' = transport
            /\ \A t \in Tunnels, d \in Slots :
                (t # s \/ d # c) => bridge'[t][d] = bridge[t][d]
            /\ (pc[s] = "serving" /\ transport[s] = "alive") =>
                    (\E d \in 1..cfg.slots : FreeSlot(s, d))']_vars

\* C8 witness: a bridge has failed its local connect while the supervisor is
\* Serving and another bridge is copying.
C8_Witness ==
    \E s \in Tunnels, c, d \in Slots :
        /\ c # d /\ pc[s] = "serving"
        /\ bridge[s][c].st = "failed" /\ bridge[s][d].st = "piping"

\* The next step of supervisor t ends its thread.
Doomed(t) == pc[t] = "dead" \/ (pc[t] = "wp_unlink" /\ ~file.exists)

Recovering(s) ==
    pc[s] \in {"auth_unlink", "auth_sleep", "finally", "sleep", "double"}

\* C9: no step a supervisor takes while it recovers from a failure stops
\* another supervisor or leaves it about to stop.
C9_FailureNeverStopsOtherTunnel ==
    [][\A s, t \in Tunnels :
        (s # t /\ Recovering(s) /\ pc'[s] # pc[s]) =>
            (Doomed(t)' => Doomed(t))]_vars

\* C10 as stated: before any sleep and before the next attempt the session
\* of the attempt is closed, and no earlier session is still open.
C10_ClosedBeforeAnySleep ==
    \A s \in Tunnels :
        pc[s] \in {"auth_sleep", "sleep", "double", "loop"} =>
            (client[s] \in {"none", "closed"} /\ leaked[s] = 0)

\* C10 as amended: before the backoff sleep and before the next attempt the
\* session of the attempt is closed (after an authentication failure the
\* close follows the handler's pause), a thread that ends leaves no session
\* open, and no earlier session is ever still open.
C10_ClosedBeforeBackoffAndRetry ==
    \A s \in Tunnels :
        /\ pc[s] \in {"sleep", "double"} => client[s] = "closed"
        /\ pc[s] = "loop" => client[s] \in {"none", "closed"}
        /\ pc[s] = "dead" => client[s] # "open"
        /\ leaked[s] = 0

\* C10 witness: the session whose forward request failed is closed when the
\* backoff sleep begins.
C10_Witness ==
    \E s \in Tunnels :
        pc[s] = "sleep" /\ client[s] = "closed" /\ origin[s] = "forward"

\* C11: whenever forward_channel has completed (after a failed local connect,
\* or after both pipes ended, whichever side ended first), the channel and
\* the local socket it created are both closed.
C11_BridgeClosesBoth ==
    \A s \in Tunnels, c \in Slots :
        bridge[s][c].st \in {"failed", "done"} =>
            bridge[s][c].chan = "closed" /\ bridge[s][c].sock = "closed"

\* C12: when the process has exited after an interrupt, every supervisor has
\* closed its session and every bridge its channel and socket: nothing is
\* still open.
C12_NothingOpenAtExit ==
    mainpc = "exited" =>
        \A s \in Tunnels :
            /\ client[s] # "open"
            /\ \A c \in Slots :
                /\ bridge[s][c].chan \notin {"open", "shut_wr"}
                /\ bridge[s][c].sock \notin {"open", "shut_wr"}

\* C13: a supervisor has no terminal state: whatever fails, whatever the
\* credential store does and whatever the backoff values are, its thread
\* never ends on its own.
C13_SupervisorNeverEnds == \A s \in Tunnels : pc[s] # "dead"

\* The secrets that were ever stored whole: by write_password for a prompt
\* input, or by an earlier run.
StoredSecrets ==
    {Strip(FileText(p)) : p \in PromptInputs} \cup
    {Strip(f.content) : f \in InitFiles \ {NoFile}}

\* What read_password returns for file f is a secret that was stored whole.
ReadsWhole(f) == f.content # <<>> /\ read_password(f) \in StoredSecrets

\* C14: in every interleaving of the supervisors' credential-store steps, no
\* step of secure_password ends the thread with an error, and every secret
\* read from an existing file is one that was stored whole (not the empty,
\* partial or mixed text of a write in progress).
C14_StoreSafeUnderConcurrency ==
    [][\A s \in Tunnels :
        /\ (pc[s] # "dead" /\ pc'[s] = "dead") =>
                pc[s] \notin {"loop", "prompt", "wp_exists", "wp_unlink",
                              "wp_open", "wp_write", "fixperm"}
        /\ (pc[s] = "loop" /\ pc'[s] # "loop" /\ file.exists) =>
                ReadsWhole(file)]_vars

Malformed(raw) == raw \in BadCountMap \cup BadPortMap

\* C15: if any --map value is malformed (a field count other than 3 or 4, or
\* a port that is not an integer), main ends with a fatal error and a
\* non-zero exit status, and no supervisor is ever started, not even for the
\* well-formed values before the malformed one.
C15_MalformedMapStartsNothing ==
    (\E i \in DOMAIN cfg.map : Malformed(cfg.map[i])) =>
        /\ \A s \in Tunnels : pc[s] = "unstarted" /\ client[s] = "none"
        /\ mainpc \in {"parsing", "exited"}
        /\ mainpc = "exited" => status = "nonzero"
        /\ Len(specs) < Len(cfg.map)

\* C15 witness: main has ended with the fatal error on the second --map
\* value, after it parsed a well-formed first one.
C15_Witness ==
    /\ Len(cfg.map) = 2 /\ ~Malformed(cfg.map[1]) /\ Malformed(cfg.map[2])
    /\ Len(specs) = 1
    /\ mainpc = "exited" /\ status = "nonzero"

\* The number of colon-separated fields of a --map value.
FieldCount(raw) == Cardinality({k \in DOMAIN raw : raw[k] = ":"}) + 1

\* C16: parse_map_flag maps P:H:Q to the TunnelSpec (default bind host, P,
\* H, Q), maps B:P:H:Q to (B, P, H, Q), and rejects every value with any
\* other number of fields.
C16_ParseMapFlag ==
    \A i \in DOMAIN cfg.map :
        /\ \A p \in IntFields, q \in IntFields :
            (i <= Len(specs) /\ cfg.map[i] = Join3(p[1], <<"h">>, q[1])) =>
                /\ specs[i].remote_bind_host = cfg.remote_bind_host
                /\ specs[i].remote_bind_port = p[2]
                /\ specs[i].local_host = <<"h">>
                /\ specs[i].local_port = q[2]
        /\ \A p \in IntFields, q \in IntFields :
            (i <= Len(specs)
                /\ cfg.map[i] = Join4(<<"b">>, p[1], <<"h">>, q[1])) =>
                /\ specs[i].remote_bind_host = <<"b">>
                /\ specs[i].remote_bind_port = p[2]
                /\ specs[i].local_host = <<"h">>
                /\ specs[i].local_port = q[2]
        /\ FieldCount(cfg.map[i]) \notin {3, 4} =>
                /\ Len(specs) < i
                /\ ~parse_map_flag(cfg.map[i], cfg.remote_bind_host).ok
        /\ (mainpc = "launching" /\ i <= Len(specs)) =>
                FieldCount(cfg.map[i]) \in {3, 4}

\* C16 witness: both shapes have been parsed in one run, the first with a
\* padded port.
C16_Witness ==
    /\ Len(specs) = 2
    /\ cfg.map[1] = Join3(<<" ", "8", "0">>, <<"h">>, str(80))
    /\ cfg.map[2] = Join4(<<"b">>, str(65535), <<"h">>, str(80))
    /\ specs[2].remote_bind_host = <<"b">>
    /\ specs[1].remote_bind_port = 80

\* Another C16 witness: main has rejected "abc:3000".
C16_WitnessReject ==
    /\ cfg.map = <<<<"a", "b", "c", ":", "3", "0", "0", "0">>>>
    /\ mainpc = "exited" /\ status = "nonzero" /\ specs = <<>>

\* C17: every TunnelSpec handed to a supervisor has its remote bind port and
\* its local port in 1..65535.
C17_PortsInRange ==
    \A s \in Tunnels :
        Started(s) =>
            /\ specs[s].remote_bind_port \in 1..65535
            /\ specs[s].local_port \in 1..65535

\* The file is there with a mode looser than rw-------.
Loose(f) == f.exists /\ f.mode # "0600"

\* secure_password of supervisor s returns in this step.
Returns(s) == pc[s] \in {"wp_write", "fixperm"} /\ pc'[s] = "connect"

\* C18: a file created by write_password has mode rw-------, and an existing
\* file with a looser mode keeps its content and has mode rw------- when
\* the next secure_password returns.
C18_TightenedWithoutChange ==
    [][/\ Loose(file) => (file'.exists /\ file'.content = file.content)
       /\ (~file.exists /\ file'.exists) => file'.mode = "0600"
       /\ \A s \in Tunnels :
            Returns(s) => (file'.exists /\ file'.mode = "0600")]_vars

\* C18 as the code has it: the same, except that a looser file holding no
\* secret (blank after trimming) is not kept: the read prompts and
\* write_password removes the file and creates a new one of mode rw-------.
C18_TightenedOrReplaced ==
    [][/\ (Loose(file) /\ ~Falsy(read_password(file))) =>
            (file'.exists /\ file'.content = file.content)
       /\ (Loose(file) /\ Falsy(read_password(file)) /\ file' # file) =>
            (file' = NoFile /\ \E s \in Tunnels : pc[s] = "wp_unlink")
       /\ (~file.exists /\ file'.exists) => file'.mode = "0600"
       /\ \A s \in Tunnels :
            Returns(s) => (file'.exists /\ file'.mode = "0600")]_vars

\* C18 witness: after the read of a looser file that holds no secret, the
\* supervisor has been prompted and is about to remove the file.
C18_Witness ==
    \E s \in Tunnels : pc[s] = "wp_unlink" /\ Loose(file)

\* Another C18 witness: a looser file holding a secret has been read and is
\* about to be tightened.
C18_WitnessTighten ==
    \E s \in Tunnels :
        pc[s] = "fixperm" /\ Loose(file) /\ pw[s] = ServerSecret

\* C19: secure_password prompts only when the file does not exist; whenever
\* the file exists it returns the trimmed contents without a prompt.
C19_PromptOnlyWithoutFile ==
    \A s \in Tunnels : pc[s] = "prompt" => ~file.exists

\* C19 as the code has it: secure_password prompts when the file does not
\* exist or holds no secret (blank after trimming); a secret read from the
\* file is returned trimmed with the content left as it is; a prompted secret
\* is returned as typed and the file holds it, with mode rw-------.
C19_PromptOnlyWithoutSecret ==
    \A s \in Tunnels :
        /\ pc[s] = "prompt" => Falsy(read_password(file))
        /\ (pc[s] \in {"fixperm", "connect"} /\ pwsrc[s] = "file") =>
            /\ file.exists
            /\ pw[s] = Strip(file.content) /\ pw[s] # <<>>
        /\ (pc[s] = "connect" /\ pwsrc[s] = "prompt") =>
            /\ pw[s] \in PromptInputs
            /\ file = [exists |-> TRUE, content |-> FileText(pw[s]),
                       mode |-> "0600"]

\* C19 witness: the file exists, holds only white space, and the supervisor
\* is at the prompt.
C19_Witness ==
    \E s \in Tunnels :
        pc[s] = "prompt" /\ file.exists /\ Strip(file.content) = <<>>

\* Every thread that main started has ended.
AllExited == \A s \in 1..Len(specs) : pc[s] = "dead"

\* C20: once every supervisor thread has exited, main stops waiting and the
\* process terminates.
C20_MainEndsWhenAllExited ==
    (mainpc = "joining" /\ AllExited) ~> (mainpc = "exited")

\* What the bridge of slot c of supervisor s may still do when its pipe t1
\* (t2) has ended: the other pipe reads the socket (channel) and writes the
\* channel (socket), and neither endpoint is closed.
Draining(b) ==
    /\ (b.chan = "closed" \/ b.sock = "closed") =>
            (b.t1 = "ended" /\ b.t2 = "ended")
    /\ b.t1 \in {"run", "hold"} => (b.sock = "open" /\ b.chan # "closed")
    /\ b.t2 \in {"run", "hold"} => (b.chan = "open" /\ b.sock # "closed")
    /\ b.t1 = "ended" => b.sock \in {"shut_wr", "closed"}
    /\ b.t2 = "ended" => b.chan \in {"shut_wr", "closed"}

\* C21: in a bridge, the end of one copy direction only shuts down the write
\* side of its destination; the other direction is left as it is, can still
\* receive, and can deliver every piece of data it holds; no endpoint is
\* closed before both directions have ended.
C21_HalfCloseKeepsOtherDirection ==
    /\ [](\A s \in Tunnels, c \in Slots :
            bridge[s][c].st \in {"piping", "done"} =>
                /\ Draining(bridge[s][c])
                /\ (BridgeRuns(s, c) /\ bridge[s][c].t1 = "run") =>
                        ENABLED PipeRecvT1(s, c)
                /\ (BridgeRuns(s, c) /\ bridge[s][c].t1 = "hold") =>
                        ENABLED PipeSendT1(s, c)
                /\ (BridgeRuns(s, c) /\ bridge[s][c].t2 = "run") =>
                        ENABLED PipeRecvT2(s, c)
                /\ (BridgeRuns(s, c) /\ bridge[s][c].t2 = "hold") =>
                        ENABLED PipeSendT2(s, c))
    /\ [][\A s \in Tunnels, c \in Slots :
            bridge[s][c].st = "piping" =>
                /\ (bridge[s][c].t1 # "ended"
                        /\ bridge'[s][c].t1 = "ended") =>
                    bridge'[s][c] = [bridge[s][c] EXCEPT !.t1 = "ended",
                                                        !.sock = "shut_wr"]
                /\ (bridge[s][c].t2 # "ended"
                        /\ bridge'[s][c].t2 = "ended") =>
                    bridge'[s][c] = [bridge[s][c] EXCEPT !.t2 = "ended",
                                                        !.chan = "shut_wr"]]_vars

\* C21 witness: the channel-to-socket direction has ended and the socket is
\* half-closed, while the other direction holds data it received after that
\* and the supervisor is still Serving.
C21_Witness ==
    \E s \in Tunnels, c \in Slots :
        /\ pc[s] = "serving" /\ BridgeRuns(s, c)
        /\ bridge[s][c] = [st |-> "piping", chan |-> "open",
                           sock |-> "shut_wr", t1 |-> "ended", t2 |-> "hold"]

\* The forward_channel thread of slot c is at work.
Active(s, c) == bridge[s][c].st \in {"spawned", "piping"}

\* C22: while Serving, an accepted channel is handed to one new bridge and
\* the supervisor is back in accept at once: the step starts exactly one
\* bridge, touches no other bridge and nothing of the supervisor, and as
\* long as the peer has a channel to offer the next accept can take it
\* whatever the earlier bridges are doing.
C22_AcceptDoesNotWaitForBridges ==
    /\ [](\A s \in Tunnels :
            (Running(s) /\ pc[s] = "serving" /\ transport[s] = "alive"
                /\ \E c \in 1..cfg.slots : FreeSlot(s, c)) =>
                    ENABLED AcceptChannel(s))
    /\ [][\A s \in Tunnels, c \in Slots :
            (~Active(s, c) /\ bridge'[s][c].st = "spawned") =>
                /\ pc[s] = "serving" /\ pc' = pc
                /\ bridge'[s][c].chan = "open"
                /\ \A t \in Tunnels, d \in Slots :
                    (t # s \/ d # c) => bridge'[t][d] = bridge[t][d]
                /\ client' = client /\ transport' = transport
                /\ backoff' = backoff /\ polls' = polls]_vars

\* C22 witness: the supervisor is in accept with one bridge just started
\* while every other channel slot holds a bridge that is still copying.
C22_Witness ==
    \E s \in Tunnels, c \in Slots :
        /\ pc[s] = "serving" /\ Running(s) /\ cfg.slots > 1
        /\ bridge[s][c].st = "spawned"
        /\ \A d \in (1..cfg.slots) \ {c} : bridge[s][d].st = "piping"

\* C23: when accept returns None while Serving, nothing changes: the
\* supervisor stays Serving on the same open session, the backoff is as it
\* was, no bridge is started and no recovery begins, however many timeouts
\* follow one another.
C23_AcceptNoneChangesNothing ==
    /\ [](\A s \in Tunnels :
            (Running(s) /\ pc[s] = "serving") => ENABLED AcceptNone(s))
    /\ [][\A s \in Tunnels :
            (pc[s] = "serving" /\ polls'[s] # polls[s]) =>
                /\ pc' = pc /\ client' = client /\ transport' = transport
                /\ client[s] = "open"
                /\ backoff' = backoff /\ bridge' = bridge
                /\ file' = file /\ fd' = fd /\ pw' = pw
                /\ origin' = origin /\ waited' = waited /\ fails' = fails
                /\ mainpc' = mainpc]_vars

\* C23 witness: accept has timed out on a session that has a bridge copying,
\* and the supervisor is Serving on the open session as before.
C23_Witness ==
    \E s \in Tunnels, c \in Slots :
        /\ pc[s] = "serving" /\ polls[s] = 1 /\ client[s] = "open"
        /\ bridge[s][c].st = "piping" /\ backoff[s] = cfg.backoff_start

\* The attempt of supervisor s ended on a missing transport or on a refused
\* forward request.
SetupFailed(s) == origin[s] \in {"transport", "forward"}

\* C24: when connect succeeds but the transport is missing or the forward
\* request fails, the supervisor goes to the backoff and not to Serving: the
\* failing step and the close leave backoff_current as it was, the session is
\* closed before the delay, the delay lasts that backoff_current, and the
\* step after the delay sets it to min(2 * backoff_current, backoff_max).
C24_SetupFailureBacksOff ==
    /\ [](\A s \in Tunnels :
            SetupFailed(s) =>
                /\ pc[s] = "finally" => waited[s] = <<>>
                /\ pc[s] = "sleep" =>
                        (client[s] = "closed" /\ waited[s] = <<>>)
                /\ pc[s] = "double" =>
                        /\ client[s] = "closed"
                        /\ waited[s] = <<(<<"backoff", backoff[s]>>)>>
                /\ pc[s] = "loop" =>
                        /\ client[s] = "closed"
                        /\ Len(waited[s]) = 1
                        /\ waited[s][1][1] = "backoff"
                        /\ backoff[s] =
                             Min(waited[s][1][2] * 2, cfg.backoff_max))
    /\ [][\A s \in Tunnels :
            /\ (pc[s] = "connect" /\ pc'[s] # pc[s]) =>
                    /\ pc'[s] \in {"forward", "finally", "auth_unlink"}
                    /\ backoff'[s] = backoff[s]
            /\ (pc[s] = "forward" /\ pc'[s] # pc[s]) =>
                    \/ pc'[s] = "serving"
                    \/ (pc'[s] = "finally" /\ origin'[s] = "forward"
                            /\ backoff'[s] = backoff[s])
            /\ (SetupFailed(s) /\ pc[s] = "finally" /\ pc'[s] # pc[s]) =>
                    /\ pc'[s] = "sleep" /\ backoff'[s] = backoff[s]
                    /\ client'[s] = "closed"
            /\ (SetupFailed(s) /\ pc[s] = "sleep" /\ pc'[s] = "double") =>
                    backoff'[s] = backoff[s]
            /\ (SetupFailed(s) /\ pc[s] = "double" /\ pc'[s] # pc[s]) =>
                    /\ pc'[s] = "loop"
                    /\ backoff'[s] = Min(backoff[s] * 2, cfg.backoff_max)]_vars

\* C24 witness: the forward request of a second attempt failed, after the
\* first attempt found no transport; the second delay was the doubled one
\* and backoff_current has reached backoff_max.
C24_Witness ==
    \E s \in Tunnels :
        /\ pc[s] = "loop" /\ origin[s] = "forward" /\ fails[s] = 2
        /\ client[s] = "closed"
        /\ cfg.backoff_start = 1 /\ cfg.backoff_max = 3
        /\ waited[s] = <<(<<"backoff", 2>>)>> /\ backoff[s] = 3

\* C25: every pass through the backoff runs in this order: the client is
\* closed when the sleep begins; the sleep lasts the backoff_current the pass
\* began with, which is backoff_start when the failure ended a Serving
\* session; backoff_current becomes min(2 * backoff_current, backoff_max)
\* only after the sleep; and the loop starts the next attempt only after
\* that.
C25_BackingOffOrder ==
    /\ [](\A s \in Tunnels :
            /\ pc[s] \in {"sleep", "double"} =>
                    (client[s] = "closed" /\ origin[s] # "auth")
            /\ (pc[s] = "sleep" /\ origin[s] \in {"drop", "serving"}) =>
                    backoff[s] = cfg.backoff_start)
    /\ [][\A s \in Tunnels :
            /\ (pc'[s] = "sleep" /\ pc[s] # "sleep") =>
                    /\ pc[s] = "finally"
                    /\ client'[s] = "closed"
                    /\ backoff'[s] = backoff[s] /\ waited'[s] = waited[s]
            /\ (pc'[s] = "double" /\ pc[s] # "double") =>
                    /\ pc[s] = "sleep"
                    /\ backoff'[s] = backoff[s]
                    /\ waited'[s] =
                         Append(waited[s], <<"backoff", backoff[s]>>)
            /\ (pc[s] = "double" /\ pc'[s] # "double") =>
                    /\ pc'[s] = "loop"
                    /\ backoff'[s] = Min(backoff[s] * 2, cfg.backoff_max)
                    /\ waited'[s] = waited[s]
                    /\ client'[s] = "closed"
            /\ (pc[s] = "sleep" /\ pc'[s] # "sleep") =>
                    pc'[s] \in {"double", "dead"}
            /\ (pc'[s] = "connect" /\ pc[s] # "connect") =>
                    pc[s] \notin {"finally", "sleep", "double"}]_vars

\* C25 witness: the backoff that follows a dropped Serving session is over:
\* the delay was backoff_start and backoff_current is its double.
C25_Witness ==
    \E s \in Tunnels :
        /\ pc[s] = "loop" /\ origin[s] = "drop" /\ client[s] = "closed"
        /\ cfg.backoff_start = 1 /\ cfg.backoff_max = 3
        /\ waited[s] = <<(<<"backoff", 1>>)>> /\ backoff[s] = 2

\* C26: with several supervisors on one credential path, the file that the
\* authentication-failure handler of a supervisor deletes holds the secret
\* that supervisor's failed attempt used, never another one stored since.
C26_InvalidationDeletesOwnSecretOnly ==
    [][\A s \in Tunnels :
        (pc[s] = "auth_unlink" /\ pc'[s] = "auth_sleep"
            /\ file.exists /\ ~file'.exists) =>
            read_password(file) = pw[s]]_vars

====
